---- MODULE Spec2Model ----
(***************************************************************************)
(* Loan chaincode (src/chaincode/loan_chaincode.go) and its client          *)
(* (src/client/client.go) as a state machine.                               *)
(*                                                                          *)
(* A transaction is submitted by a client (SubmitTransaction): the handler  *)
(* runs against the committed world state, its GetState calls form the      *)
(* read set (key, version) and its PutState calls the write set; nothing is *)
(* written while the handler runs.  The ledger later commits the            *)
(* transaction: the write set is applied only when every key of the read    *)
(* set still has the version that was read; otherwise the transaction is    *)
(* invalidated and the client gets an error.                                *)
(*                                                                          *)
(* Amounts are float64 in the code.  They are modelled as binary floating   *)
(* point numbers with MantissaBits significant bits (float64 has 53) whose  *)
(* smallest unit is 1: a number is representable when it has at most        *)
(* MantissaBits significant bits, and the result of a subtraction is        *)
(* rounded to the nearest representable number, ties to even.  Only finite  *)
(* amounts are submitted, so json.Marshal never fails.                      *)
(***************************************************************************)
EXTENDS Integers, Sequences, FiniteSets, TLC

VARIABLES
    store,   \* world state: key -> [value (JSON document or NilBytes), version]
    tx,      \* per client connection: the transaction in flight, if any
    ret      \* what the last finished SubmitTransaction / EvaluateTransaction returned

vars == <<store, tx, ret>>

-----------------------------------------------------------------------------
(* Bounds of the model *)

MantissaBits == 2
MaxAmount == 6
MaxRepayments == 2
MaxInvalidArgs == 1

Clients == {"c1", "c2"}
LoanIDs == {"L1"}

-----------------------------------------------------------------------------
(* float64 arithmetic, scaled down to MantissaBits bits *)

RECURSIVE Pow2(_)
Pow2(n) == IF n = 0 THEN 1 ELSE 2 * Pow2(n - 1)

\* the exponent e of the unit in the last place of x: the least e with
\* x < 2^(MantissaBits + e)
RECURSIVE UlpExp(_, _)
UlpExp(x, e) == IF x < Pow2(MantissaBits + e) THEN e ELSE UlpExp(x, e + 1)

\* round-to-nearest, ties-to-even, of the exact value x >= 0
RoundToFloat(x) ==
    LET e == UlpExp(x, 0)
        u == Pow2(e)
        q == x \div u
        r == x % u
    IN  IF 2 * r < u THEN q * u
        ELSE IF 2 * r > u THEN (q + 1) * u
        ELSE IF q % 2 = 0 THEN q * u ELSE (q + 1) * u

Representable(x) == RoundToFloat(x) = x

\* a - b on float64, for 0 <= b <= a
FSub(a, b) == RoundToFloat(a - b)

Floats == {x \in 1..MaxAmount : Representable(x)}

-----------------------------------------------------------------------------
(* Inputs *)

IDInputs == {""} \cup LoanIDs
NameInputs == {"", "A"}
AmountInputs == {0} \cup Floats
PrincipalInputs == {0, MaxAmount}
TermInputs == {0, 12}
RateInputs == {-1, 0}
StatusInputs == {"APPLIED", "APPROVED", "REJECTED", "PAID", ""}

\* how many of the arguments of an ApplyForLoan call fail its validation
InvalidArgs(a) ==
    (IF a.loanID = "" THEN 1 ELSE 0) + (IF a.applicantName = "" THEN 1 ELSE 0)
    + (IF a.loanAmount <= 0 THEN 1 ELSE 0) + (IF a.termMonths <= 0 THEN 1 ELSE 0)
    + (IF a.interestRate < 0 THEN 1 ELSE 0)

\* the ApplyForLoan calls submitted: at most MaxInvalidArgs invalid arguments each
ApplyInputs ==
    {a \in [loanID : IDInputs, applicantName : NameInputs, loanAmount : PrincipalInputs,
            termMonths : TermInputs, interestRate : RateInputs] :
        InvalidArgs(a) <= MaxInvalidArgs}

-----------------------------------------------------------------------------
(* The Loan struct and its JSON encoding *)

NilBytes == [nil |-> TRUE]

Marshal(loan) ==
    [loanID        |-> loan.LoanID,
     applicantName |-> loan.ApplicantName,
     loanAmount    |-> loan.LoanAmount,
     termMonths    |-> loan.TermMonths,
     interestRate  |-> loan.InterestRate,
     outstanding   |-> loan.Outstanding,
     status        |-> loan.Status,
     repayments    |-> loan.Repayments]

Unmarshal(doc) ==
    [LoanID        |-> doc.loanID,
     ApplicantName |-> doc.applicantName,
     LoanAmount    |-> doc.loanAmount,
     TermMonths    |-> doc.termMonths,
     InterestRate  |-> doc.interestRate,
     Outstanding   |-> doc.outstanding,
     Status        |-> doc.status,
     Repayments    |-> doc.repayments]

-----------------------------------------------------------------------------
(* The chaincode stub *)

\* ctx.GetStub().GetState(key): the committed value and its version
GetState(key) ==
    IF key \in DOMAIN store THEN store[key]
    ELSE [value |-> NilBytes, version |-> 0]

ReadSet(key, got) == {[key |-> key, version |-> got.version, value |-> got.value]}

\* ctx.GetStub().PutState(key, value): an entry of the write set
PutState(key, value) == {[key |-> key, value |-> value]}

\* a handler's return: the error ("" for nil), and the read and write sets
Fail(msg, reads) == [err |-> msg, reads |-> reads, writes |-> {}]
Ok(reads, writes) == [err |-> "", reads |-> reads, writes |-> writes]

-----------------------------------------------------------------------------
(* The errors returned to the caller *)

ErrEmptyID == "loan ID cannot be empty"
ErrEmptyName == "applicant name cannot be empty"
ErrAmount == "loan amount must be positive"
ErrTerm == "loan term must be positive"
ErrRate == "interest rate cannot be negative"
ErrAlreadyExists == "loan ID already exists"
ErrInvalidStatus == "invalid status, must be APPROVED or REJECTED"
ErrNotFound == "loan does not exist"
ErrNotApplied == "loan must be in APPLIED status to be approved/rejected"
ErrNotApproved == "only APPROVED loans can accept repayments"
ErrRepayment == "repayment amount must be positive"
ErrExceeds == "repayment amount exceeds outstanding balance"

\* the ledger invalidated the transaction: a key it read was written since
ErrConflict == "MVCC_READ_CONFLICT"

-----------------------------------------------------------------------------
(* The handlers *)

\* ApplyForLoan's "Create new loan"
NewLoan_ZeroOutstanding(loanID, applicantName, loanAmount, termMonths, interestRate) ==
    [LoanID        |-> loanID,
     ApplicantName |-> applicantName,
     LoanAmount    |-> loanAmount,
     TermMonths    |-> termMonths,
     InterestRate  |-> interestRate,
     Outstanding   |-> 0,
     Status        |-> "APPLIED",
     Repayments    |-> <<>>]

NewLoan(loanID, applicantName, loanAmount, termMonths, interestRate) ==
    [LoanID        |-> loanID,
     ApplicantName |-> applicantName,
     LoanAmount    |-> loanAmount,
     TermMonths    |-> termMonths,
     InterestRate  |-> interestRate,
     Outstanding   |-> loanAmount,
     Status        |-> "APPLIED",
     Repayments    |-> <<>>]

\* ApplyForLoan's test that the loan already exists: existing != nil
LoanExists_Never(existing) == FALSE

LoanExists(existing) == existing # NilBytes

\* ApplyForLoan's "Validate inputs": the error of the first failing test, "" if none
ValidateInputs_NoRate(loanID, applicantName, loanAmount, termMonths, interestRate) ==
    IF loanID = "" THEN ErrEmptyID
    ELSE IF applicantName = "" THEN ErrEmptyName
    ELSE IF loanAmount <= 0 THEN ErrAmount
    ELSE IF termMonths <= 0 THEN ErrTerm
    ELSE ""

ValidateInputs(loanID, applicantName, loanAmount, termMonths, interestRate) ==
    IF loanID = "" THEN ErrEmptyID
    ELSE IF applicantName = "" THEN ErrEmptyName
    ELSE IF loanAmount <= 0 THEN ErrAmount
    ELSE IF termMonths <= 0 THEN ErrTerm
    ELSE IF interestRate < 0 THEN ErrRate
    ELSE ""

\* ApplyForLoan without its GetState: no existence check, nothing in the read set
ApplyForLoan_NoRead(loanID, applicantName, loanAmount, termMonths, interestRate) ==
    IF ValidateInputs(loanID, applicantName, loanAmount, termMonths, interestRate) # ""
    THEN Fail(ValidateInputs(loanID, applicantName, loanAmount, termMonths, interestRate), {})
    ELSE Ok({}, PutState(loanID, Marshal(NewLoan(loanID, applicantName, loanAmount,
                                                 termMonths, interestRate))))

ApplyForLoan(loanID, applicantName, loanAmount, termMonths, interestRate) ==
    IF ValidateInputs(loanID, applicantName, loanAmount, termMonths, interestRate) # ""
    THEN Fail(ValidateInputs(loanID, applicantName, loanAmount, termMonths, interestRate), {})
    ELSE
      LET existing == GetState(loanID)
          reads == ReadSet(loanID, existing)
      IN  IF LoanExists(existing.value) THEN Fail(ErrAlreadyExists, reads)
          ELSE
            LET loan == NewLoan(loanID, applicantName, loanAmount, termMonths,
                                interestRate)
            IN  Ok(reads, PutState(loanID, Marshal(loan)))

\* ApproveLoan's "Validate status"
ValidDecision_Any(status) == TRUE

ValidDecision_AllowsPaid(status) ==
    ~ (status # "APPROVED" /\ status # "REJECTED" /\ status # "PAID")

ValidDecision(status) == ~ (status # "APPROVED" /\ status # "REJECTED")

\* ApproveLoan's "Validate current status"
CanDecide_Always(loan) == TRUE

CanDecide(loan) == ~ (loan.Status # "APPLIED")

\* ApproveLoan's "Update status": loan.Status = status
SetStatus_Rebuild(loan, status) ==
    [LoanID        |-> loan.LoanID,
     ApplicantName |-> loan.ApplicantName,
     LoanAmount    |-> loan.LoanAmount,
     TermMonths    |-> 0,
     InterestRate  |-> loan.InterestRate,
     Outstanding   |-> loan.Outstanding,
     Status        |-> status,
     Repayments    |-> loan.Repayments]

SetStatus_ResetOutstanding(loan, status) ==
    [loan EXCEPT !.Status = status, !.Outstanding = 0]

SetStatus(loan, status) == [loan EXCEPT !.Status = status]

ApproveLoan(loanID, status) ==
    IF ~ ValidDecision(status) THEN Fail(ErrInvalidStatus, {})
    ELSE
      LET got == GetState(loanID)
          reads == ReadSet(loanID, got)
      IN  IF got.value = NilBytes THEN Fail(ErrNotFound, reads)
          ELSE
            LET loan == Unmarshal(got.value)
            IN  IF ~ CanDecide(loan) THEN Fail(ErrNotApplied, reads)
                ELSE Ok(reads, PutState(loanID, Marshal(SetStatus(loan, status))))

\* MakeRepayment's "Validate loan status"
CanRepay_Always(loan) == TRUE

CanRepay_OrApplied(loan) == loan.Status = "APPROVED" \/ loan.Status = "APPLIED"

CanRepay(loan) == ~ (loan.Status # "APPROVED")

\* MakeRepayment's loan.Outstanding -= repaymentAmount
Reduce_FromPrincipal(loan, repaymentAmount) == FSub(loan.LoanAmount, repaymentAmount)

Reduce_Adds(loan, repaymentAmount) == loan.Outstanding + repaymentAmount

Reduce(loan, repaymentAmount) == FSub(loan.Outstanding, repaymentAmount)

\* MakeRepayment's "Update status if fully paid"
FullyPaid_Negative(outstanding) == outstanding < 0

FullyPaid(outstanding) == outstanding <= 0

\* MakeRepayment's "Validate repayment doesn't exceed outstanding"
ExceedsOutstanding_Principal(loan, repaymentAmount) == repaymentAmount > loan.LoanAmount

ExceedsOutstanding(loan, repaymentAmount) == repaymentAmount > loan.Outstanding

\* MakeRepayment's loan.Repayments = append(loan.Repayments, repaymentAmount)
AppendRepayment_Front(loan, repaymentAmount) == <<repaymentAmount>> \o loan.Repayments

AppendRepayment(loan, repaymentAmount) == Append(loan.Repayments, repaymentAmount)

MakeRepayment(loanID, repaymentAmount) ==
    IF repaymentAmount <= 0 THEN Fail(ErrRepayment, {})
    ELSE
      LET got == GetState(loanID)
          reads == ReadSet(loanID, got)
      IN  IF got.value = NilBytes THEN Fail(ErrNotFound, reads)
          ELSE
            LET loan == Unmarshal(got.value)
            IN  IF ~ CanRepay(loan) THEN Fail(ErrNotApproved, reads)
                ELSE IF ExceedsOutstanding(loan, repaymentAmount) THEN Fail(ErrExceeds, reads)
                ELSE
                  LET paid == [loan EXCEPT
                                 !.Outstanding = Reduce(loan, repaymentAmount),
                                 !.Repayments = AppendRepayment(loan, repaymentAmount)]
                      updated == IF FullyPaid(paid.Outstanding)
                                 THEN [paid EXCEPT !.Status = "PAID"]
                                 ELSE paid
                  IN  Ok(reads, PutState(loanID, Marshal(updated)))

\* returns (*Loan, error): the loan is in the writes-free response's "loan"
CheckLoanBalance_NoNilCheck(loanID) ==
    LET got == GetState(loanID)
    IN  [err |-> "", loan |-> got.value]

CheckLoanBalance_AsCreated(loanID) ==
    LET got == GetState(loanID)
    IN  IF got.value = NilBytes
        THEN [err |-> ErrNotFound, loan |-> NilBytes]
        ELSE [err |-> "",
              loan |-> [Unmarshal(got.value) EXCEPT !.Outstanding = got.value.loanAmount]]

CheckLoanBalance(loanID) ==
    LET got == GetState(loanID)
    IN  IF got.value = NilBytes
        THEN [err |-> ErrNotFound, loan |-> NilBytes]
        ELSE [err |-> "", loan |-> Unmarshal(got.value)]

\* the contract API routes a transaction to the handler named fn
Invoke(fn, args) ==
    CASE fn = "ApplyForLoan" ->
            ApplyForLoan(args.loanID, args.applicantName, args.loanAmount,
                         args.termMonths, args.interestRate)
      [] fn = "ApproveLoan" -> ApproveLoan(args.loanID, args.status)
      [] fn = "MakeRepayment" -> MakeRepayment(args.loanID, args.repaymentAmount)

-----------------------------------------------------------------------------
(* The ledger: commit with version validation *)

\* every key read still has the version that was read
MVCCValid(reads) == \A r \in reads : GetState(r.key).version = r.version

ApplyWrites(writes) ==
    [k \in DOMAIN store |->
        IF \E w \in writes : w.key = k
        THEN [value   |-> (CHOOSE w \in writes : w.key = k).value,
              version |-> store[k].version + 1]
        ELSE store[k]]

-----------------------------------------------------------------------------
(* The client *)

Idle == [pc |-> "idle"]

\* what SubmitTransaction / EvaluateTransaction hands back to its caller
Returned(fn, args, reads, err, loan, attempts) ==
    [fn |-> fn, args |-> args, reads |-> reads, err |-> err, loan |-> loan,
     attempts |-> attempts]

\* the client after an error from SubmitTransaction: log.Fatalf, no second
\* attempt; the connection is free for the transaction of the next client run
AfterError_Retry(t, pending) ==
    IF pending.pc = "endorsed" THEN [pending EXCEPT !.attempt = @ + 1] ELSE Idle

AfterError(t, pending) == Idle

\* a write that would grow repayments beyond the model's bound is not submitted
WithinBounds(resp) ==
    \A w \in resp.writes : Len(w.value.repayments) <= MaxRepayments

\* contract.SubmitTransaction(fn, args...): the handler runs (endorsement); an
\* error of the handler is returned at once, otherwise the transaction waits
\* for its commit
Submit(t, fn, args, resp) ==
    /\ WithinBounds(resp)
    /\ IF resp.err # ""
       THEN /\ tx' = [tx EXCEPT ![t] = AfterError(t, tx[t])]
            /\ ret' = Returned(fn, args, resp.reads, resp.err, NilBytes, 1)
       ELSE /\ tx' = [tx EXCEPT ![t] = [pc |-> "endorsed", fn |-> fn, args |-> args,
                                        reads |-> resp.reads, writes |-> resp.writes,
                                        attempt |-> 1]]
            /\ ret' = ret
    /\ UNCHANGED store

SubmitApplyForLoan(t) ==
    /\ tx[t].pc = "idle"
    /\ \E a \in ApplyInputs :
        Submit(t, "ApplyForLoan", a, Invoke("ApplyForLoan", a))

SubmitApproveLoan(t) ==
    /\ tx[t].pc = "idle"
    /\ \E id \in IDInputs, status \in StatusInputs :
        LET args == [loanID |-> id, status |-> status]
        IN  Submit(t, "ApproveLoan", args, Invoke("ApproveLoan", args))

SubmitMakeRepayment(t) ==
    /\ tx[t].pc = "idle"
    /\ \E id \in IDInputs, amount \in AmountInputs :
        LET args == [loanID |-> id, repaymentAmount |-> amount]
        IN  Submit(t, "MakeRepayment", args, Invoke("MakeRepayment", args))

\* contract.EvaluateTransaction("CheckLoanBalance", id): a query, never committed
EvaluateCheckLoanBalance(t) ==
    /\ tx[t].pc = "idle"
    /\ \E id \in IDInputs :
        LET resp == CheckLoanBalance(id)
        IN  /\ ret' = Returned("CheckLoanBalance", [loanID |-> id],
                               ReadSet(id, GetState(id)), resp.err, resp.loan, 1)
            /\ UNCHANGED <<store, tx>>

\* the ledger validates and commits transaction t; SubmitTransaction returns
Commit(t) ==
    /\ tx[t].pc = "endorsed"
    /\ LET valid == MVCCValid(tx[t].reads)
       IN  /\ store' = IF valid THEN ApplyWrites(tx[t].writes) ELSE store
           /\ tx' = [tx EXCEPT ![t] = IF valid THEN Idle ELSE AfterError(t, tx[t])]
           /\ ret' = Returned(tx[t].fn, tx[t].args, tx[t].reads,
                              IF valid THEN "" ELSE ErrConflict,
                              NilBytes, tx[t].attempt)

-----------------------------------------------------------------------------

Init ==
    /\ store = [k \in LoanIDs |-> [value |-> NilBytes, version |-> 0]]
    /\ tx = [t \in Clients |-> Idle]
    /\ ret = Returned("", [loanID |-> ""], {}, "", NilBytes, 0)

Next ==
    \E t \in Clients :
        \/ SubmitApplyForLoan(t)
        \/ SubmitApproveLoan(t)
        \/ SubmitMakeRepayment(t)
        \/ EvaluateCheckLoanBalance(t)
        \/ Commit(t)

Spec == Init /\ [][Next]_vars

-----------------------------------------------------------------------------
(* Vocabulary of the properties *)

Present(k) == GetState(k).value # NilBytes
Rec(k) == GetState(k).value

RECURSIVE SumSeq(_)
SumSeq(q) == IF q = <<>> THEN 0 ELSE Head(q) + SumSeq(Tail(q))

\* this step ends client t's transaction in flight (its commit or invalidation)
Finishes(t) == tx[t].pc = "endorsed" /\ tx'[t] # tx[t]

\* this step endorses a new transaction of client t
Endorses(t) == tx[t].pc = "idle" /\ tx'[t].pc = "endorsed"

\* this step is a call returning at once: a handler error or a query
ReturnsAtOnce == tx' = tx /\ store' = store

\* the key a transaction in flight read and writes
KeyOf(t) == tx[t].args.loanID

-----------------------------------------------------------------------------
(* C1: a write to a key succeeds only if no other write to the key happened   *)
(* between the writer's read and its write: every change of a stored record   *)
(* is the commit of a transaction that read the record and version currently  *)
(* stored, the new record is the handler's result on that record, a committed *)
(* write is stored whole, and a transaction whose read is stale changes       *)
(* nothing and returns a conflict.                                            *)
C1_WritesAreSerialized ==
    [][ /\ \A k \in LoanIDs :
             store'[k] # store[k] =>
               \E t \in Clients :
                  /\ Finishes(t)
                  /\ ret'.err = ""
                  /\ \E r \in tx[t].reads :
                        r.key = k /\ r.version = store[k].version /\ r.value = store[k].value
                  /\ Invoke(tx[t].fn, tx[t].args).writes = tx[t].writes
                  /\ \E w \in tx[t].writes :
                        /\ w.key = k
                        /\ store'[k] = [value |-> w.value, version |-> store[k].version + 1]
        /\ \A t \in Clients :
             Finishes(t) =>
               IF \A r \in tx[t].reads : store[r.key].version = r.version
               THEN ret'.err = "" /\ \A w \in tx[t].writes : store'[w.key].value = w.value
               ELSE ret'.err = ErrConflict /\ store' = store
      ]_vars

\* a transaction lost a race: it was invalidated after another write to its key
C1_Witness ==
    /\ ret.err = ErrConflict
    /\ \E r \in ret.reads : store[r.key].version > r.version /\ Present(r.key)

-----------------------------------------------------------------------------
(* C2 *)

\* client t's repayment is in flight, and since it read the APPROVED record
\* exactly one other repayment was accepted; the two amounts together do not
\* exceed the outstanding balance both of them read
ConcurrentRepayment(fn, args, reads) ==
    /\ fn = "MakeRepayment"
    /\ \E r \in reads :
          /\ r.key = args.loanID
          /\ r.value # NilBytes
          /\ r.value.status = "APPROVED"
          /\ store[r.key].version = r.version + 1
          /\ Len(Rec(r.key).repayments) = Len(r.value.repayments) + 1
          /\ Rec(r.key).repayments[Len(Rec(r.key).repayments)] + args.repaymentAmount
                <= r.value.outstanding

-----------------------------------------------------------------------------
(* C3 *)

-----------------------------------------------------------------------------
(* C4: every stored record satisfies                                          *)
(* sum(repayments) + outstanding = principal.                                 *)
C4_Original ==
    \A k \in LoanIDs :
        Present(k) => SumSeq(Rec(k).repayments) + Rec(k).outstanding = Rec(k).loanAmount

-----------------------------------------------------------------------------
(* C5: a stored record has status PAID exactly when its outstanding is 0; an  *)
(* accepted repayment equal to the outstanding balance sets outstanding to 0  *)
(* and status to PAID in that operation, and an accepted repayment smaller    *)
(* than the outstanding balance leaves the status APPROVED.                   *)
C5_PaidIffZero ==
    /\ [](\A k \in LoanIDs :
            Present(k) => (Rec(k).status = "PAID" <=> Rec(k).outstanding = 0))
    /\ [][ \A t \in Clients :
             (Finishes(t) /\ tx[t].fn = "MakeRepayment" /\ ret'.err = "")
             => LET before == Rec(KeyOf(t))
                    after == store'[KeyOf(t)].value
                    amount == tx[t].args.repaymentAmount
                IN  /\ amount = before.outstanding
                       => after.outstanding = 0 /\ after.status = "PAID"
                    /\ amount < before.outstanding => after.status = "APPROVED"
         ]_vars

\* a loan paid off by a partial repayment followed by one of the exact balance
C5_Witness ==
    \E k \in LoanIDs :
        /\ Present(k)
        /\ Rec(k).status = "PAID"
        /\ Rec(k).outstanding = 0
        /\ Len(Rec(k).repayments) = 2
        /\ ret.fn = "MakeRepayment" /\ ret.err = ""

-----------------------------------------------------------------------------
(* C6: a record is created with status APPLIED, and every change of a stored  *)
(* record's status is APPLIED->APPROVED, APPLIED->REJECTED or APPROVED->PAID. *)
StatusEdges ==
    {<<"APPLIED", "APPROVED">>, <<"APPLIED", "REJECTED">>, <<"APPROVED", "PAID">>}

C6_StatusEdges ==
    [][ \A k \in LoanIDs :
          /\ (~ Present(k) /\ store'[k].value # NilBytes)
             => store'[k].value.status = "APPLIED"
          /\ (Present(k) /\ store'[k].value # NilBytes
                /\ store'[k].value.status # Rec(k).status)
             => <<Rec(k).status, store'[k].value.status>> \in StatusEdges
      ]_vars

\* a record that went APPLIED -> APPROVED -> PAID
C6_Witness ==
    \E k \in LoanIDs :
        Present(k) /\ Rec(k).status = "PAID" /\ store[k].version >= 3

-----------------------------------------------------------------------------
(* C7: once a record's status is REJECTED or PAID, no step changes the        *)
(* record.                                                                    *)
C7_TerminalFrozen ==
    [][ \A k \in LoanIDs :
          (Present(k) /\ Rec(k).status \in {"REJECTED", "PAID"})
          => store'[k] = store[k]
      ]_vars

\* a repayment was refused on a record in a terminal state
C7_Witness ==
    /\ ret.fn = "MakeRepayment"
    /\ ret.err = ErrNotApproved
    /\ ret.args.loanID \in LoanIDs
    /\ Present(ret.args.loanID)
    /\ Rec(ret.args.loanID).status \in {"REJECTED", "PAID"}

-----------------------------------------------------------------------------
(* C8: for all valid apply inputs on a key with no record, apply succeeds and *)
(* the stored record has the given id, applicantName, principal, termMonths   *)
(* and interestRate, status APPLIED, outstanding = principal and no           *)
(* repayments.                                                                *)
NewRecord(a) ==
    [loanID        |-> a.loanID,
     applicantName |-> a.applicantName,
     loanAmount    |-> a.loanAmount,
     termMonths    |-> a.termMonths,
     interestRate  |-> a.interestRate,
     outstanding   |-> a.loanAmount,
     status        |-> "APPLIED",
     repayments    |-> <<>>]

C8_ApplyCreates ==
    /\ [](\A a \in ApplyInputs :
            (InvalidArgs(a) = 0 /\ ~ Present(a.loanID))
            => LET resp == Invoke("ApplyForLoan", a)
               IN  /\ resp.err = ""
                   /\ resp.writes = {[key |-> a.loanID, value |-> NewRecord(a)]})
    /\ [][ \A t \in Clients :
             (Finishes(t) /\ tx[t].fn = "ApplyForLoan" /\ ~ Present(KeyOf(t)))
             => /\ ret'.err = ""
                /\ store'[KeyOf(t)].value = NewRecord(tx[t].args)
         ]_vars

\* an apply has just been committed
C8_Witness ==
    /\ ret.fn = "ApplyForLoan"
    /\ ret.err = ""
    /\ Present(ret.args.loanID)
    /\ Rec(ret.args.loanID) = NewRecord(ret.args)

-----------------------------------------------------------------------------
(* C9 *)

\* C9 as stated: applying with an id for which a record exists always fails
\* with AlreadyExists and leaves the record unchanged.
C9_Original ==
    [][ (ReturnsAtOnce /\ ret'.fn = "ApplyForLoan" /\ ret'.args.loanID \in LoanIDs
           /\ Present(ret'.args.loanID))
        => ret'.err = ErrAlreadyExists
      ]_vars

\* C9 amended: applying with an id for which a record exists always fails and
\* leaves the record unchanged, whatever the record's status: with
\* AlreadyExists when the other arguments are valid, and with the error of the
\* argument validation when one of them is not.
C9_Amended ==
    /\ [](\A a \in ApplyInputs :
            (a.loanID \in LoanIDs /\ Present(a.loanID))
            => LET resp == Invoke("ApplyForLoan", a)
               IN  /\ resp.writes = {}
                   /\ InvalidArgs(a) = 0 => resp.err = ErrAlreadyExists
                   /\ InvalidArgs(a) # 0
                        => resp.err \in {ErrEmptyName, ErrAmount, ErrTerm, ErrRate})
    /\ [][ /\ (ReturnsAtOnce /\ ret'.fn = "ApplyForLoan" /\ ret'.args.loanID \in LoanIDs
                 /\ Present(ret'.args.loanID))
              => /\ InvalidArgs(ret'.args) = 0 => ret'.err = ErrAlreadyExists
                 /\ InvalidArgs(ret'.args) # 0
                      => ret'.err \in {ErrEmptyName, ErrAmount, ErrTerm, ErrRate}
           /\ \A t \in Clients :
                 (Endorses(t) /\ tx'[t].fn = "ApplyForLoan")
                 => ~ Present(tx'[t].args.loanID)
         ]_vars

\* an apply on the id of a record that was paid off has failed with AlreadyExists
C9_Witness ==
    /\ ret.fn = "ApplyForLoan"
    /\ ret.err = ErrAlreadyExists
    /\ Present(ret.args.loanID)
    /\ Rec(ret.args.loanID).status = "PAID"

-----------------------------------------------------------------------------
(* C10: decide with either decision on a record whose status is APPROVED,     *)
(* REJECTED or PAID fails with InvalidState and leaves the record unchanged,  *)
(* and a query returns the stored record.                                     *)
C10_DecideOnlyApplied ==
    /\ [](\A k \in LoanIDs, d \in {"APPROVED", "REJECTED"} :
            (Present(k) /\ Rec(k).status \in {"APPROVED", "REJECTED", "PAID"})
            => Invoke("ApproveLoan", [loanID |-> k, status |-> d])
                 = Fail(ErrNotApplied, ReadSet(k, store[k])))
    /\ [][ /\ (ReturnsAtOnce /\ ret'.fn = "ApproveLoan"
                 /\ ret'.args.status \in {"APPROVED", "REJECTED"}
                 /\ ret'.args.loanID \in LoanIDs
                 /\ Present(ret'.args.loanID)
                 /\ Rec(ret'.args.loanID).status \in {"APPROVED", "REJECTED", "PAID"})
              => ret'.err = ErrNotApplied
           /\ \A t \in Clients :
                 (Endorses(t) /\ tx'[t].fn = "ApproveLoan")
                 => Present(tx'[t].args.loanID) /\ Rec(tx'[t].args.loanID).status = "APPLIED"
           /\ (ReturnsAtOnce /\ ret'.fn = "CheckLoanBalance" /\ ret'.err = "")
              => ret'.loan.Status = Rec(ret'.args.loanID).status
         ]_vars

\* a REJECTED decision on an APPROVED loan has failed with InvalidState
C10_Witness ==
    /\ ret.fn = "ApproveLoan"
    /\ ret.args.status = "REJECTED"
    /\ ret.err = ErrNotApplied
    /\ Present(ret.args.loanID)
    /\ Rec(ret.args.loanID).status = "APPROVED"

-----------------------------------------------------------------------------
\* this step is a call that returns without a transaction being endorsed or
\* committed: a handler error or a query
CallReturns == tx' = tx

(* C11: a repayment on an APPROVED loan whose amount exceeds the current      *)
(* outstanding fails with ExceedsBalance and leaves the record unchanged:     *)
(* nothing is written and no such repayment is ever endorsed.                 *)
C11_ExceedsBalance ==
    /\ [](\A k \in LoanIDs, a \in AmountInputs :
            (Present(k) /\ Rec(k).status = "APPROVED" /\ a > Rec(k).outstanding)
            => Invoke("MakeRepayment", [loanID |-> k, repaymentAmount |-> a])
                 = Fail(ErrExceeds, ReadSet(k, store[k])))
    /\ [][ /\ (CallReturns /\ ret'.fn = "MakeRepayment"
                 /\ ret'.args.loanID \in LoanIDs
                 /\ Present(ret'.args.loanID)
                 /\ Rec(ret'.args.loanID).status = "APPROVED"
                 /\ ret'.args.repaymentAmount > Rec(ret'.args.loanID).outstanding)
              => ret'.err = ErrExceeds /\ store' = store
           /\ \A t \in Clients :
                 (Endorses(t) /\ tx'[t].fn = "MakeRepayment")
                 => tx'[t].args.repaymentAmount <= Rec(tx'[t].args.loanID).outstanding
         ]_vars

\* a repayment larger than what is left of a partly repaid loan was refused
C11_Witness ==
    /\ ret.fn = "MakeRepayment"
    /\ ret.err = ErrExceeds
    /\ Present(ret.args.loanID)
    /\ Rec(ret.args.loanID).status = "APPROVED"
    /\ Len(Rec(ret.args.loanID).repayments) >= 1
    /\ ret.args.repaymentAmount > Rec(ret.args.loanID).outstanding

-----------------------------------------------------------------------------
(* C12: a repayment with a positive amount on an existing record whose status *)
(* is not APPROVED (APPLIED, REJECTED or PAID) fails with InvalidState, not   *)
(* ExceedsBalance, whatever the amount is relative to outstanding, and leaves *)
(* the record unchanged.                                                      *)
C12_RepayOnlyApproved ==
    /\ [](\A k \in LoanIDs, a \in AmountInputs :
            (a > 0 /\ Present(k) /\ Rec(k).status # "APPROVED")
            => Invoke("MakeRepayment", [loanID |-> k, repaymentAmount |-> a])
                 = Fail(ErrNotApproved, ReadSet(k, store[k])))
    /\ [][ /\ (CallReturns /\ ret'.fn = "MakeRepayment"
                 /\ ret'.args.repaymentAmount > 0
                 /\ ret'.args.loanID \in LoanIDs
                 /\ Present(ret'.args.loanID)
                 /\ Rec(ret'.args.loanID).status # "APPROVED")
              => ret'.err = ErrNotApproved /\ store' = store
           /\ \A t \in Clients :
                 (Endorses(t) /\ tx'[t].fn = "MakeRepayment")
                 => Present(tx'[t].args.loanID)
                    /\ Rec(tx'[t].args.loanID).status = "APPROVED"
         ]_vars

\* a repayment on a PAID loan, larger than its outstanding, failed with InvalidState
C12_Witness ==
    /\ ret.fn = "MakeRepayment"
    /\ ret.err = ErrNotApproved
    /\ Present(ret.args.loanID)
    /\ Rec(ret.args.loanID).status = "PAID"
    /\ ret.args.repaymentAmount > Rec(ret.args.loanID).outstanding

-----------------------------------------------------------------------------
(* C13: a successful decide on an APPLIED record sets status to the given     *)
(* decision (APPROVED or REJECTED) and changes no other field.                *)
C13_DecideFrame ==
    /\ [](\A k \in LoanIDs, d \in {"APPROVED", "REJECTED"} :
            (Present(k) /\ Rec(k).status = "APPLIED")
            => Invoke("ApproveLoan", [loanID |-> k, status |-> d]).writes
                 = {[key |-> k, value |-> [Rec(k) EXCEPT !.status = d]]})
    /\ [][ \A t \in Clients :
             (Finishes(t) /\ tx[t].fn = "ApproveLoan" /\ ret'.err = "")
             => /\ Rec(KeyOf(t)).status = "APPLIED"
                /\ tx[t].args.status \in {"APPROVED", "REJECTED"}
                /\ store'[KeyOf(t)].value
                     = [Rec(KeyOf(t)) EXCEPT !.status = tx[t].args.status]
         ]_vars

\* a REJECTED decision has just been committed
C13_Witness ==
    /\ ret.fn = "ApproveLoan"
    /\ ret.err = ""
    /\ ret.args.status = "REJECTED"
    /\ Present(ret.args.loanID)
    /\ Rec(ret.args.loanID).status = "REJECTED"

-----------------------------------------------------------------------------
(* C14: once a record is created, its id, applicantName, principal,           *)
(* termMonths and interestRate never change, whatever operations follow; the  *)
(* id is the key the record is stored under.                                  *)
C14_IdentityFieldsFrozen ==
    /\ [](\A k \in LoanIDs : Present(k) => Rec(k).loanID = k)
    /\ [][ \A k \in LoanIDs :
             Present(k)
             => /\ Present(k)'
                /\ Rec(k)'.loanID = Rec(k).loanID
                /\ Rec(k)'.applicantName = Rec(k).applicantName
                /\ Rec(k)'.loanAmount = Rec(k).loanAmount
                /\ Rec(k)'.termMonths = Rec(k).termMonths
                /\ Rec(k)'.interestRate = Rec(k).interestRate
         ]_vars

\* a record that went through a decision and repayments still has what it was
\* created with
C14_Witness ==
    \E k \in LoanIDs :
       /\ Present(k)
       /\ Rec(k).status = "PAID"
       /\ Len(Rec(k).repayments) = MaxRepayments
       /\ Rec(k).applicantName = "A"
       /\ Rec(k).loanAmount = MaxAmount
       /\ Rec(k).termMonths = 12

-----------------------------------------------------------------------------
\* every ApplyForLoan call over the input sets, invalid in any number of arguments
AllApplyInputs ==
    [loanID : IDInputs, applicantName : NameInputs, loanAmount : PrincipalInputs,
     termMonths : TermInputs, interestRate : RateInputs]

\* the messages of ApplyForLoan's input validation (InvalidArgument)
InvalidArgumentErrs == {ErrEmptyID, ErrEmptyName, ErrAmount, ErrTerm, ErrRate}

(* C15: apply with any invalid input (empty id, empty applicantName,          *)
(* principal <= 0, termMonths <= 0 or interestRate < 0) fails with            *)
(* InvalidArgument, reads and writes nothing, whether or not a record exists  *)
(* for the id; AlreadyExists is returned only when all inputs are valid and a *)
(* record is present.                                                         *)
C15_InvalidApply ==
    /\ [](\A a \in AllApplyInputs :
            LET resp == Invoke("ApplyForLoan", a)
            IN  /\ InvalidArgs(a) > 0
                   => /\ resp.err \in InvalidArgumentErrs
                      /\ resp.writes = {}
                /\ resp.err = ErrAlreadyExists
                   => InvalidArgs(a) = 0 /\ Present(a.loanID))
    /\ [][ /\ (CallReturns /\ ret'.fn = "ApplyForLoan" /\ InvalidArgs(ret'.args) > 0)
              => ret'.err \in InvalidArgumentErrs /\ store' = store
           /\ (ret'.fn = "ApplyForLoan" /\ ret'.err = ErrAlreadyExists /\ ret' # ret)
              => InvalidArgs(ret'.args) = 0 /\ Present(ret'.args.loanID)
           /\ \A t \in Clients :
                 (Endorses(t) /\ tx'[t].fn = "ApplyForLoan")
                 => InvalidArgs(tx'[t].args) = 0
         ]_vars

\* an apply with a negative rate for an id that has a record failed on the rate
C15_Witness ==
    /\ ret.fn = "ApplyForLoan"
    /\ ret.err = ErrRate
    /\ ret.args.interestRate < 0
    /\ Present(ret.args.loanID)

-----------------------------------------------------------------------------
\* the operations other than apply
OtherOps == {"ApproveLoan", "MakeRepayment", "CheckLoanBalance"}

\* a key gets a record only when an apply commits, and never loses it
Lifecycle ==
    \A k \in LoanIDs :
       /\ (~ Present(k) /\ Present(k)')
          => \E t \in Clients :
                /\ Finishes(t) /\ tx[t].fn = "ApplyForLoan" /\ KeyOf(t) = k
                /\ ret'.err = ""
       /\ Present(k) => Present(k)'

\* the arguments of the call pass the handler's checks that precede its read
ValidArgs(fn, args) ==
    CASE fn = "ApproveLoan"   -> args.status \in {"APPROVED", "REJECTED"}
      [] fn = "MakeRepayment" -> args.repaymentAmount > 0
      [] OTHER                -> TRUE

(* C16 as stated: a key gets a record only through a successful apply and     *)
(* never loses it; decide, repay and query on a key with no record fail with  *)
(* NotFound and leave the key absent.                                         *)
C16_Original ==
    [][ /\ Lifecycle
        /\ (CallReturns /\ ret' # ret /\ ret'.fn \in OtherOps
              /\ ~ Present(ret'.args.loanID))
           => ret'.err = ErrNotFound /\ store' = store
      ]_vars

(* C16 amended: a key gets a record only through a successful apply and never *)
(* loses it; query, decide with a decision of APPROVED or REJECTED, and repay *)
(* with a positive amount, on a key with no record, fail with NotFound and    *)
(* leave the key absent; decide and repay with other arguments fail with      *)
(* InvalidArgument there and also leave it absent.                            *)
C16_Amended ==
    /\ [](\A k \in IDInputs :
            ~ Present(k)
            => /\ CheckLoanBalance(k).err = ErrNotFound
               /\ \A d \in {"APPROVED", "REJECTED"} :
                     Invoke("ApproveLoan", [loanID |-> k, status |-> d])
                       = Fail(ErrNotFound, ReadSet(k, GetState(k)))
               /\ \A a \in AmountInputs :
                     a > 0 => Invoke("MakeRepayment", [loanID |-> k, repaymentAmount |-> a])
                                = Fail(ErrNotFound, ReadSet(k, GetState(k))))
    /\ [][ /\ Lifecycle
           /\ (CallReturns /\ ret' # ret /\ ret'.fn \in OtherOps
                 /\ ~ Present(ret'.args.loanID))
              => /\ store' = store
                 /\ ret'.err = IF ValidArgs(ret'.fn, ret'.args) THEN ErrNotFound
                               ELSE IF ret'.fn = "ApproveLoan" THEN ErrInvalidStatus
                               ELSE ErrRepayment
           /\ \A t \in Clients :
                 (Endorses(t) /\ tx'[t].fn \in OtherOps) => Present(tx'[t].args.loanID)
         ]_vars

\* a query on a key with no record has failed with NotFound, the key still absent
C16_Witness ==
    /\ ret.fn = "CheckLoanBalance"
    /\ ret.err = ErrNotFound
    /\ ret.args.loanID \in LoanIDs
    /\ ~ Present(ret.args.loanID)

-----------------------------------------------------------------------------
(* C17: query never changes the store: it performs one read and no write,     *)
(* returns a record equal to the one currently stored for the key when one    *)
(* exists, and fails with NotFound when none exists.                          *)
C17_QueryReadOnly ==
    /\ [](\A k \in IDInputs :
            LET resp == CheckLoanBalance(k)
            IN  IF Present(k)
                THEN resp.err = "" /\ Marshal(resp.loan) = Rec(k)
                ELSE resp.err = ErrNotFound)
    /\ [][ (ret'.fn = "CheckLoanBalance" /\ ret' # ret)
           => /\ store' = store
              /\ tx' = tx
              /\ ret'.reads = ReadSet(ret'.args.loanID, GetState(ret'.args.loanID))
              /\ Cardinality(ret'.reads) = 1
              /\ IF Present(ret'.args.loanID)
                 THEN ret'.err = "" /\ Marshal(ret'.loan) = Rec(ret'.args.loanID)
                 ELSE ret'.err = ErrNotFound
         ]_vars

\* a query has returned a partly repaid record, equal to the stored one
C17_Witness ==
    /\ ret.fn = "CheckLoanBalance"
    /\ ret.err = ""
    /\ Present(ret.args.loanID)
    /\ Marshal(ret.loan) = Rec(ret.args.loanID)
    /\ ret.loan.Outstanding < ret.loan.LoanAmount
    /\ ret.loan.Repayments # <<>>

-----------------------------------------------------------------------------
(* C18: every stored record satisfies 0 <= outstanding <= principal, its      *)
(* outstanding equals its principal while its status is APPLIED or REJECTED,  *)
(* and no step increases outstanding.                                         *)
C18_OutstandingBounds ==
    /\ [](\A k \in LoanIDs :
            Present(k)
            => /\ 0 <= Rec(k).outstanding
               /\ Rec(k).outstanding <= Rec(k).loanAmount
               /\ Rec(k).status \in {"APPLIED", "REJECTED"}
                  => Rec(k).outstanding = Rec(k).loanAmount)
    /\ [][ \A k \in LoanIDs :
             Present(k) => Rec(k)'.outstanding <= Rec(k).outstanding
         ]_vars

\* a loan repaid in part: outstanding strictly between 0 and the principal
C18_Witness ==
    \E k \in LoanIDs :
       /\ Present(k)
       /\ Rec(k).status = "APPROVED"
       /\ 0 < Rec(k).outstanding
       /\ Rec(k).outstanding < Rec(k).loanAmount

-----------------------------------------------------------------------------
\* every element of the sequence is positive
AllPositive(seq) == \A i \in 1..Len(seq) : seq[i] > 0

(* C19: repayments is append-only and ordered: a new record has none, every   *)
(* step leaves a record's repayments unchanged or appends exactly one         *)
(* element, the amount of the repay that succeeded, at the end; every element *)
(* is positive; existing elements are never removed, reordered or modified.   *)
C19_RepaymentsAppendOnly ==
    /\ [](\A k \in LoanIDs : Present(k) => AllPositive(Rec(k).repayments))
    /\ [][ \A k \in LoanIDs :
             /\ (~ Present(k) /\ Present(k)') => Rec(k)'.repayments = <<>>
             /\ Present(k)
                => \/ Rec(k)'.repayments = Rec(k).repayments
                   \/ \E t \in Clients :
                         /\ Finishes(t) /\ tx[t].fn = "MakeRepayment" /\ KeyOf(t) = k
                         /\ ret'.err = ""
                         /\ Rec(k)'.repayments
                              = Append(Rec(k).repayments, tx[t].args.repaymentAmount)
         ]_vars

\* two repayments of different amounts are recorded, in the order they were made
C19_Witness ==
    \E k \in LoanIDs :
       /\ Present(k)
       /\ Len(Rec(k).repayments) = 2
       /\ Rec(k).repayments[1] < Rec(k).repayments[2]
       /\ ret.fn = "MakeRepayment"
       /\ ret.err = ""
       /\ ret.args.repaymentAmount = Rec(k).repayments[2]

-----------------------------------------------------------------------------
\* the status values of the Loan record
Statuses == {"APPLIED", "APPROVED", "REJECTED", "PAID"}

(* C20: decide with a decision other than APPROVED or REJECTED (APPLIED,      *)
(* PAID, any other string) is rejected before the store is read and writes    *)
(* nothing; the status of every stored record is always one of APPLIED,       *)
(* APPROVED, REJECTED, PAID; and status PAID is only ever set by repay.       *)
C20_StatusDomain ==
    /\ [](\A k \in IDInputs, d \in StatusInputs \ {"APPROVED", "REJECTED"} :
            Invoke("ApproveLoan", [loanID |-> k, status |-> d])
              = Fail(ErrInvalidStatus, {}))
    /\ [](\A k \in LoanIDs : Present(k) => Rec(k).status \in Statuses)
    /\ [][ /\ (ret'.fn = "ApproveLoan" /\ ret' # ret
                 /\ ret'.args.status \notin {"APPROVED", "REJECTED"})
              => /\ ret'.err = ErrInvalidStatus
                 /\ ret'.reads = {}
                 /\ store' = store
                 /\ tx' = tx
           /\ \A k \in LoanIDs :
                 ((~ Present(k) \/ Rec(k).status # "PAID")
                    /\ Present(k)' /\ Rec(k)'.status = "PAID")
                 => \E t \in Clients :
                       /\ Finishes(t) /\ tx[t].fn = "MakeRepayment" /\ KeyOf(t) = k
                       /\ ret'.err = ""
         ]_vars

\* a decision of PAID on an APPLIED record was refused without a read
C20_Witness ==
    /\ ret.fn = "ApproveLoan"
    /\ ret.err = ErrInvalidStatus
    /\ ret.args.status = "PAID"
    /\ ret.reads = {}
    /\ Present(ret.args.loanID)
    /\ Rec(ret.args.loanID).status = "APPLIED"

====
